---- MODULE Spec2Model ----
(***************************************************************************)
(* State-machine model of src/venv/FlappyBird.py: the bird physics         *)
(* (Passaro), the pipes (Cano), the ground (Chao) and the session and its  *)
(* main loop (Game).                                                       *)
(*                                                                         *)
(* Units.  Every vertical quantity of a bird (y, velocidade,               *)
(* altura_inicio_pulo, the displacement) is kept in HALF pixels, i.e. as   *)
(* twice the Python float: the floats of the program are all multiples of  *)
(* 0.5 (1.5 * t^2 - 10.5 * t, minus 2, clamped to 16), so the doubled      *)
(* values are exact integers.  Everything else is in pixels.               *)
(*                                                                         *)
(* Sprites.  The image files are not part of the sources; the sizes used   *)
(* are those of the sprite set the program loads (each doubled by          *)
(* scale2x), and a silhouette (pygame mask) is taken to be the full        *)
(* rectangle of its sprite.                                                *)
(***************************************************************************)
EXTENDS Integers, Sequences, FiniteSets, TLC

(* ------------------------------ Config ------------------------------- *)
TELA_LARGURA == 500
IMPULSO_PULO_X2 == -21
GRAVIDADE_TERMO_X2 == 3
DESLOCAMENTO_MAX == 16
ROTACAO_MAXIMA == 25
VELOCIDADE_ROTACAO == 20
TEMPO_ANIMACAO == 5
ANGULO_MIN_ASA == -80
DISTANCIA_CANO == 200
VELOCIDADE_CANO == 5
CANO_ALTURA_MIN == 50
CANO_ALTURA_MAX == 450
VELOCIDADE_CHAO == 5

(* Positions Game.reset gives the new objects. *)
PASSARO_X == 230
PASSARO_Y == 350
CHAO_Y == 730
CANO_X_INICIAL == 700

(* Sprite sizes after scale2x (bird 34x24, pipe 52x320, base 336 wide). *)
PASSARO_LARGURA == 68
PASSARO_ALTURA == 48
CANO_LARGURA == 104
CANO_ALTURA == 640
CHAO_LARGURA == 672

(* ------------------------------ Bounds ------------------------------- *)
(* Ticks (calls of atualizar_estado) modelled per session.               *)
MaxTicks == 180
(* random.randrange is sampled every PassoAltura values, plus its last.   *)
PassoAltura == 200
(* The player presses SPACE only PuloRapido ticks after the previous      *)
(* impulse (or reset), or between PrimeiroPulo and                        *)
(* PrimeiroPulo + JanelaPulo ticks after it: fast enough to climb to the  *)
(* ceiling, slow enough to hover through the gaps.                        *)
PuloRapido == 7
PrimeiroPulo == 12
JanelaPulo == 1
(* Ticks modelled by SpecPassaro, where SPACE may come at any tick.       *)
MaxTicksPassaro == 30
(* Steps of Cano.mover modelled by SpecCano.                              *)
MaxPassosCano == 4

VARIABLES
    passaros,   \* Game.passaros: sequence of bird records
    canos,      \* Game.canos: sequence of pipe records
    chao,       \* Game.chao
    pontos,     \* Game.pontos
    rodando,    \* Game.rodando
    pc,         \* position of Game.run
    ticks,      \* history: calls of atualizar_estado since the last reset
    impulsou,   \* history: pular was called since the last reset
    colidiu,    \* history: Cano.colidir returned True since the last reset
    transicoes, \* history: passou went False -> True since the last reset
    fechou,     \* history: a QUIT event was handled since the last reset
    cfg,        \* the Config in use (CFG): the pipe height range
    aposMover   \* history: the birds as the latest tick's Passaro.mover left
                \* them, before any was removed

vars == <<passaros, canos, chao, pontos, rodando, pc,
          ticks, impulsou, colidiu, transicoes, fechou, cfg, aposMover>>

(* ------------------------------ Passaro ------------------------------ *)
NovoPassaro(x, y) ==
    [x |-> x, y |-> 2 * y, angulo |-> 0, velocidade |-> 0,
     altura_inicio_pulo |-> 2 * y, tempo |-> 0,
     contagem_imagem |-> 0, imagem |-> 0]

(* Mutant: the impulse forgets to record the height it started from.      *)
Pular_SemReferencia(p) ==
    [p EXCEPT !.velocidade = IMPULSO_PULO_X2,
              !.tempo = 0]

Pular(p) ==
    [p EXCEPT !.velocidade = IMPULSO_PULO_X2,
              !.tempo = 0,
              !.altura_inicio_pulo = p.y]

(* Mutant: the gravity term grows with t instead of t squared.            *)
Deslocamento_Linear(t, v) ==
    LET bruto == GRAVIDADE_TERMO_X2 * t + v * t
        limitado == IF bruto > 2 * DESLOCAMENTO_MAX
                    THEN 2 * DESLOCAMENTO_MAX ELSE bruto
    IN  IF limitado < 0 THEN limitado - 4 ELSE limitado

(* Mutant: the fall is not clamped to DESLOCAMENTO_MAX.                   *)
Deslocamento_SemLimite(t, v) ==
    LET bruto == GRAVIDADE_TERMO_X2 * t * t + v * t
    IN  IF bruto < 0 THEN bruto - 4 ELSE bruto

(* The displacement (half pixels) mover adds at tick t with velocity v.   *)
Deslocamento(t, v) ==
    LET bruto == GRAVIDADE_TERMO_X2 * t * t + v * t
        limitado == IF bruto > 2 * DESLOCAMENTO_MAX
                    THEN 2 * DESLOCAMENTO_MAX ELSE bruto
    IN  IF limitado < 0 THEN limitado - 4 ELSE limitado

NovoAngulo(angulo, subindo) ==
    IF subindo
    THEN IF angulo < ROTACAO_MAXIMA THEN ROTACAO_MAXIMA ELSE angulo
    ELSE IF angulo > ANGULO_MIN_ASA THEN angulo - VELOCIDADE_ROTACAO
         ELSE angulo

Mover(p) ==
    LET t == p.tempo + 1
        d == Deslocamento(t, p.velocidade)
        y == p.y + d
    IN  [p EXCEPT !.tempo = t,
                  !.y = y,
                  !.angulo = NovoAngulo(p.angulo,
                                 d < 0 \/ y < p.altura_inicio_pulo + 100)]

(* Mutant: drawing also clamps the angle it rotates the image by.         *)
Desenhar_ComLimite(p) ==
    LET c == p.contagem_imagem + 1
        t == TEMPO_ANIMACAO
        img == IF c < t THEN 0
               ELSE IF c < t * 2 THEN 1
               ELSE IF c < t * 3 THEN 2
               ELSE IF c < t * 4 THEN 1
               ELSE 0
        c2 == IF c < t * 4 THEN c ELSE 0
    IN  IF p.angulo <= ANGULO_MIN_ASA
        THEN [p EXCEPT !.imagem = 1, !.contagem_imagem = t * 2,
                       !.angulo = ANGULO_MIN_ASA]
        ELSE [p EXCEPT !.imagem = img, !.contagem_imagem = c2]

Desenhar(p) ==
    LET c == p.contagem_imagem + 1
        t == TEMPO_ANIMACAO
        img == IF c < t THEN 0
               ELSE IF c < t * 2 THEN 1
               ELSE IF c < t * 3 THEN 2
               ELSE IF c < t * 4 THEN 1
               ELSE 0
        c2 == IF c < t * 4 THEN c ELSE 0
    IN  IF p.angulo <= ANGULO_MIN_ASA
        THEN [p EXCEPT !.imagem = 1, !.contagem_imagem = t * 2]
        ELSE [p EXCEPT !.imagem = img, !.contagem_imagem = c2]

(* ------------------------------- Cano -------------------------------- *)
(* The shipped configuration, as far as the pipes read it.                *)
CFG ==
    [CANO_ALTURA_MIN |-> CANO_ALTURA_MIN, CANO_ALTURA_MAX |-> CANO_ALTURA_MAX]

(* Mutant: an empty range yields its lower end instead of raising.        *)
RandRange_Tolerante(a, b) == IF a >= b THEN {a} ELSE a .. (b - 1)

(* The values random.randrange(a, b) can return; none when a >= b, where   *)
(* it raises ValueError.                                                  *)
RandRange(a, b) == a .. (b - 1)

(* The heights definir_altura can draw under cfg.                         *)
TodasAlturas == RandRange(cfg.CANO_ALTURA_MIN, cfg.CANO_ALTURA_MAX)

(* The sample of them the session specifications draw from.              *)
Alturas ==
    LET n == (cfg.CANO_ALTURA_MAX - 1 - cfg.CANO_ALTURA_MIN) \div PassoAltura
    IN  ({cfg.CANO_ALTURA_MIN, cfg.CANO_ALTURA_MAX - 1}
            \cup {cfg.CANO_ALTURA_MIN + k * PassoAltura : k \in 1 .. n})
            \cap TodasAlturas

(* Mutant: the top pipe's position forgets the height of its image.       *)
NovoCano_SemImagem(x, altura) ==
    [x |-> x, altura |-> altura,
     pos_topo |-> altura,
     pos_base |-> altura + DISTANCIA_CANO,
     passou |-> FALSE]

NovoCano(x, altura) ==
    [x |-> x, altura |-> altura,
     pos_topo |-> altura - CANO_ALTURA,
     pos_base |-> altura + DISTANCIA_CANO,
     passou |-> FALSE]

CanoMover(c) == [c EXCEPT !.x = c.x - VELOCIDADE_CANO]

(* Python's round() of y2 / 2: to nearest, ties to the even integer.      *)
Round(y2) ==
    LET f == y2 \div 2
    IN  IF y2 % 2 = 0 THEN f
        ELSE IF f % 2 = 0 THEN f ELSE f + 1

(* Mask.overlap of the bird's rectangle with a pipe rectangle at offset.  *)
Overlap(ox, oy) ==
    /\ ox < PASSARO_LARGURA
    /\ ox + CANO_LARGURA > 0
    /\ oy < PASSARO_ALTURA
    /\ oy + CANO_ALTURA > 0

Colidir(c, p) ==
    \/ Overlap(c.x - p.x, c.pos_topo - Round(p.y))
    \/ Overlap(c.x - p.x, c.pos_base - Round(p.y))

(* ------------------------------- Chao -------------------------------- *)
NovoChao(y) == [y |-> y, x1 |-> 0, x2 |-> CHAO_LARGURA]

ChaoMover(g) ==
    LET a1 == g.x1 - VELOCIDADE_CHAO
        a2 == g.x2 - VELOCIDADE_CHAO
        b1 == IF a1 + CHAO_LARGURA < 0 THEN a2 + CHAO_LARGURA ELSE a1
        b2 == IF a2 + CHAO_LARGURA < 0 THEN b1 + CHAO_LARGURA ELSE a2
    IN  [g EXCEPT !.x1 = b1, !.x2 = b2]

(* ------------------------------- Game -------------------------------- *)
(* Mutant: reset keeps the score of the session it replaces.              *)
Reset_SemPontos(a) ==
    /\ passaros' = <<NovoPassaro(PASSARO_X, PASSARO_Y)>>
    /\ chao' = NovoChao(CHAO_Y)
    /\ canos' = <<NovoCano(CANO_X_INICIAL, a)>>
    /\ pontos' = pontos
    /\ rodando' = TRUE
    /\ ticks' = 0
    /\ impulsou' = FALSE
    /\ colidiu' = FALSE
    /\ transicoes' = 0
    /\ fechou' = FALSE
    /\ aposMover' = <<>>
    /\ UNCHANGED cfg

(* The state Game.reset builds, the first pipe's height being a.          *)
Reset(a) ==
    /\ passaros' = <<NovoPassaro(PASSARO_X, PASSARO_Y)>>
    /\ chao' = NovoChao(CHAO_Y)
    /\ canos' = <<NovoCano(CANO_X_INICIAL, a)>>
    /\ pontos' = 0
    /\ rodando' = TRUE
    /\ ticks' = 0
    /\ impulsou' = FALSE
    /\ colidiu' = FALSE
    /\ transicoes' = 0
    /\ fechou' = FALSE
    /\ aposMover' = <<>>
    /\ UNCHANGED cfg

Init ==
    /\ cfg = CFG
    /\ fechou = FALSE
    /\ aposMover = <<>>
    /\ \E a \in Alturas :
          /\ passaros = <<NovoPassaro(PASSARO_X, PASSARO_Y)>>
          /\ canos = <<NovoCano(CANO_X_INICIAL, a)>>
    /\ chao = NovoChao(CHAO_Y)
    /\ pontos = 0
    /\ rodando = TRUE
    /\ pc = "run"
    /\ ticks = 0
    /\ impulsou = FALSE
    /\ colidiu = FALSE
    /\ transicoes = 0

(* Mutant: the pipe loop never sets passou, so every pipe the bird has    *)
(* left behind keeps being counted as passed again.                       *)
RECURSIVE VarrerCanos_SemMarcar(_, _)
VarrerCanos_SemMarcar(cs, ps) ==
    IF cs = <<>>
    THEN [canos |-> <<>>, passaros |-> ps, novas |-> 0, colisao |-> FALSE]
    ELSE LET c == Head(cs)
             bateu == {i \in 1 .. Len(ps) : Colidir(c, ps[i])}
             passa == ~c.passou /\ \E i \in 1 .. Len(ps) : ps[i].x > c.x
             c2 == CanoMover(c)
             r == VarrerCanos_SemMarcar(Tail(cs),
                      SelectSeq(ps, LAMBDA p : ~Colidir(c, p)))
         IN  [canos |-> <<c2>> \o r.canos,
              passaros |-> r.passaros,
              novas |-> r.novas + (IF passa THEN 1 ELSE 0),
              colisao |-> (bateu # {}) \/ r.colisao]

(* The pipe loop of atualizar_estado over cs, the birds still active      *)
(* being ps: each pipe is tested against a snapshot of the active birds,  *)
(* then moved.  novas counts the pipes whose passou went False -> True.   *)
RECURSIVE VarrerCanos(_, _)
VarrerCanos(cs, ps) ==
    IF cs = <<>>
    THEN [canos |-> <<>>, passaros |-> ps, novas |-> 0, colisao |-> FALSE]
    ELSE LET c == Head(cs)
             bateu == {i \in 1 .. Len(ps) : Colidir(c, ps[i])}
             passa == ~c.passou /\ \E i \in 1 .. Len(ps) : ps[i].x > c.x
             c2 == CanoMover([c EXCEPT !.passou = c.passou \/ passa])
             r == VarrerCanos(Tail(cs),
                              SelectSeq(ps, LAMBDA p : ~Colidir(c, p)))
         IN  [canos |-> <<c2>> \o r.canos,
              passaros |-> r.passaros,
              novas |-> r.novas + (IF passa THEN 1 ELSE 0),
              colisao |-> (bateu # {}) \/ r.colisao]

(* Mutant: the score is incremented on every tick.                        *)
Pontuar_Sempre(p, novas) == p + 1

(* Mutant: the new pipe is put at the right edge of the screen.           *)
PosicaoNovoCano_NaBorda == TELA_LARGURA

(* Where atualizar_estado puts the pipe it appends.                       *)
PosicaoNovoCano == TELA_LARGURA + 100

(* pontos after a tick in which novas pipes were passed.                  *)
Pontuar(p, novas) == IF novas > 0 THEN p + 1 ELSE p

(* Mutant: a pipe is reaped as soon as its leading edge leaves the screen. *)
ForaDaTela_SemLargura(c) == c.x < 0

(* A pipe wholly left of the screen.                                      *)
ForaDaTela(c) == c.x + CANO_LARGURA < 0

(* Mutant: only the ground is checked.                                    *)
ForaDosLimites_SoChao(p, g) == (p.y + 2 * PASSARO_ALTURA) > 2 * g.y

(* Mutant: only the ceiling is checked.                                   *)
ForaDosLimites_SoTeto(p, g) == p.y < 0

(* Mutant: the ground check forgets the height of the bird's image.       *)
ForaDosLimites_SemAltura(p, g) == p.y > 2 * g.y \/ p.y < 0

(* A bird below the ground or above the ceiling.                          *)
ForaDosLimites(p, g) == (p.y + 2 * PASSARO_ALTURA) > 2 * g.y \/ p.y < 0

PodePular(p) ==
    \/ p.tempo = PuloRapido
    \/ p.tempo \in PrimeiroPulo .. (PrimeiroPulo + JanelaPulo)

(* run(): top of the outer loop.                                          *)
RunInicio ==
    /\ pc = "run"
    /\ rodando' = TRUE
    /\ pc' = "eventos"
    /\ UNCHANGED <<passaros, canos, chao, pontos,
                   ticks, impulsou, colidiu, transicoes, fechou,
                   cfg, aposMover>>

(* processar_eventos: one event of pygame.event.get() at a time.          *)
EventoQuit ==
    /\ pc = "eventos"
    /\ rodando' = FALSE
    /\ fechou' = TRUE
    /\ UNCHANGED <<passaros, canos, chao, pontos, pc,
                   ticks, impulsou, colidiu, transicoes, cfg, aposMover>>

EventoEspaco ==
    /\ pc = "eventos"
    /\ \A i \in 1 .. Len(passaros) : PodePular(passaros[i])
    /\ passaros' = [i \in 1 .. Len(passaros) |-> Pular(passaros[i])]
    /\ impulsou' = (impulsou \/ passaros # <<>>)
    /\ UNCHANGED <<canos, chao, pontos, rodando, pc,
                   ticks, colidiu, transicoes, fechou, cfg, aposMover>>

EventoR ==
    /\ pc = "eventos"
    /\ \E a \in Alturas : Reset(a)
    /\ UNCHANGED pc

EventoOutro ==
    /\ pc = "eventos"
    /\ UNCHANGED vars

FimEventos ==
    /\ pc = "eventos"
    /\ pc' = "atualizar"
    /\ UNCHANGED <<passaros, canos, chao, pontos, rodando,
                   ticks, impulsou, colidiu, transicoes, fechou,
                   cfg, aposMover>>

AtualizarEstado ==
    /\ pc = "atualizar"
    /\ ticks < MaxTicks
    /\ LET movidos == [i \in 1 .. Len(passaros) |-> Mover(passaros[i])]
           g == ChaoMover(chao)
           v == VarrerCanos(canos, movidos)
       IN  /\ chao' = g
           /\ \E a \in (IF v.novas > 0 THEN Alturas ELSE {0}) :
                 canos' = SelectSeq(
                     IF v.novas > 0
                     THEN Append(v.canos, NovoCano(PosicaoNovoCano, a))
                     ELSE v.canos,
                     LAMBDA c : ~ForaDaTela(c))
           /\ pontos' = Pontuar(pontos, v.novas)
           /\ passaros' = SelectSeq(v.passaros,
                                    LAMBDA p : ~ForaDosLimites(p, g))
           /\ rodando' = IF passaros' = <<>> THEN FALSE ELSE rodando
           /\ colidiu' = (colidiu \/ v.colisao)
           /\ transicoes' = transicoes + v.novas
           /\ aposMover' = movidos
    /\ ticks' = ticks + 1
    /\ pc' = "desenhar"
    /\ UNCHANGED <<impulsou, fechou, cfg>>

DesenharTela ==
    /\ pc = "desenhar"
    /\ passaros' = [i \in 1 .. Len(passaros) |-> Desenhar(passaros[i])]
    /\ pc' = IF rodando THEN "eventos" ELSE "game_over"
    /\ UNCHANGED <<canos, chao, pontos, rodando,
                   ticks, impulsou, colidiu, transicoes, fechou,
                   cfg, aposMover>>

MostrarGameOver ==
    /\ pc = "game_over"
    /\ pc' = "espera"
    /\ UNCHANGED <<passaros, canos, chao, pontos, rodando,
                   ticks, impulsou, colidiu, transicoes, fechou,
                   cfg, aposMover>>

(* The wait loop of run(): "espera" while espera is True, "espera_fim"    *)
(* once R set it to False and the for loop is still reading events.       *)
EsperaQuit ==
    /\ pc \in {"espera", "espera_fim"}
    /\ pc' = "fim"
    /\ fechou' = TRUE
    /\ UNCHANGED <<passaros, canos, chao, pontos, rodando,
                   ticks, impulsou, colidiu, transicoes, cfg, aposMover>>

EsperaEsc ==
    /\ pc \in {"espera", "espera_fim"}
    /\ pc' = "fim"
    /\ UNCHANGED <<passaros, canos, chao, pontos, rodando,
                   ticks, impulsou, colidiu, transicoes, fechou,
                   cfg, aposMover>>

EsperaR ==
    /\ pc \in {"espera", "espera_fim"}
    /\ \E a \in Alturas : Reset(a)
    /\ pc' = "espera_fim"

EsperaOutro ==
    /\ pc \in {"espera", "espera_fim"}
    /\ UNCHANGED vars

FimEspera ==
    /\ pc = "espera_fim"
    /\ pc' = "run"
    /\ UNCHANGED <<passaros, canos, chao, pontos, rodando,
                   ticks, impulsou, colidiu, transicoes, fechou,
                   cfg, aposMover>>

Next ==
    \/ RunInicio
    \/ EventoQuit
    \/ EventoEspaco
    \/ EventoR
    \/ EventoOutro
    \/ FimEventos
    \/ AtualizarEstado
    \/ DesenharTela
    \/ MostrarGameOver
    \/ EsperaQuit
    \/ EsperaEsc
    \/ EsperaR
    \/ EsperaOutro
    \/ FimEspera

Spec == Init /\ [][Next]_vars

(* ----------------------- Passaro on its own -------------------------- *)
(* The bird of a fresh session under every interleaving of impulses and  *)
(* ticks: SPACE may be pressed before any tick, and each tick moves the   *)
(* bird and applies the boundary check of atualizar_estado.  The first    *)
(* pipe needs more than 80 ticks to reach the bird's column, so within    *)
(* MaxTicksPassaro ticks no pipe takes part.                              *)
PassaroPular ==
    /\ passaros # <<>>
    /\ passaros' = [i \in 1 .. Len(passaros) |-> Pular(passaros[i])]
    /\ impulsou' = TRUE
    /\ UNCHANGED <<canos, chao, pontos, rodando, pc,
                   ticks, colidiu, transicoes, fechou, cfg, aposMover>>

PassaroMover ==
    /\ passaros # <<>>
    /\ ticks < MaxTicksPassaro
    /\ LET g == ChaoMover(chao)
           movidos == [i \in 1 .. Len(passaros) |-> Mover(passaros[i])]
       IN  /\ chao' = g
           /\ passaros' = SelectSeq(movidos,
                                    LAMBDA p : ~ForaDosLimites(p, g))
           /\ aposMover' = movidos
    /\ ticks' = ticks + 1
    /\ UNCHANGED <<canos, pontos, rodando, pc,
                   impulsou, colidiu, transicoes, fechou, cfg>>

NextPassaro ==
    \/ PassaroPular
    \/ PassaroMover

SpecPassaro == Init /\ [][NextPassaro]_vars

(* ------------------------- Cano on its own --------------------------- *)
(* Cano(x): a pipe is constructed at PosicaoNovoCano, definir_altura      *)
(* drawing any height randrange can return.                               *)
CanoNovo(a) ==
    /\ a \in TodasAlturas
    /\ canos' = <<NovoCano(PosicaoNovoCano, a)>>
    /\ UNCHANGED <<passaros, chao, pontos, rodando, pc,
                   ticks, impulsou, colidiu, transicoes, fechou,
                   cfg, aposMover>>

(* Cano.mover, at most MaxPassosCano times in all.                        *)
CanoAvancar ==
    /\ canos # <<>>
    /\ ticks < MaxPassosCano
    /\ canos' = <<CanoMover(canos[1])>>
    /\ ticks' = ticks + 1
    /\ UNCHANGED <<passaros, chao, pontos, rodando, pc,
                   impulsou, colidiu, transicoes, fechou, cfg, aposMover>>

(* A fresh session whose first pipe has any height definir_altura can     *)
(* draw.                                                                  *)
InitCano ==
    /\ cfg = CFG
    /\ fechou = FALSE
    /\ aposMover = <<>>
    /\ passaros = <<NovoPassaro(PASSARO_X, PASSARO_Y)>>
    /\ \E a \in TodasAlturas : canos = <<NovoCano(CANO_X_INICIAL, a)>>
    /\ chao = NovoChao(CHAO_Y)
    /\ pontos = 0
    /\ rodando = TRUE
    /\ pc = "run"
    /\ ticks = 0
    /\ impulsou = FALSE
    /\ colidiu = FALSE
    /\ transicoes = 0

NextCano ==
    \/ \E a \in TodasAlturas : CanoNovo(a)
    \/ CanoAvancar

SpecCano == InitCano /\ [][NextCano]_vars

(* --------------------- Game under any Config ------------------------- *)
(* The shipped configuration and two invalid ones: an empty height range  *)
(* (minimum = maximum) and a reversed one (minimum > maximum).            *)
Configs ==
    {CFG,
     [CANO_ALTURA_MIN |-> CANO_ALTURA_MAX, CANO_ALTURA_MAX |-> CANO_ALTURA_MAX],
     [CANO_ALTURA_MIN |-> CANO_ALTURA_MAX, CANO_ALTURA_MAX |-> CANO_ALTURA_MIN]}

(* main() before Game() is constructed: no session exists yet.  chao      *)
(* holds a placeholder, no field of Game being set.                       *)
InitConfig ==
    /\ cfg \in Configs
    /\ pc = "main"
    /\ passaros = <<>>
    /\ canos = <<>>
    /\ chao = NovoChao(CHAO_Y)
    /\ pontos = 0
    /\ rodando = FALSE
    /\ ticks = 0
    /\ impulsou = FALSE
    /\ colidiu = FALSE
    /\ transicoes = 0
    /\ fechou = FALSE
    /\ aposMover = <<>>

(* Game.__init__: reset builds the bird and the ground, then Cano(700),   *)
(* whose definir_altura raises ValueError when randrange has nothing to   *)
(* return; the exception leaves __init__ and main, canos, pontos and      *)
(* rodando never being assigned.  Otherwise run() is entered.             *)
GameInit ==
    /\ pc = "main"
    /\ IF TodasAlturas = {}
       THEN /\ pc' = "erro"
            /\ passaros' = <<NovoPassaro(PASSARO_X, PASSARO_Y)>>
            /\ chao' = NovoChao(CHAO_Y)
            /\ UNCHANGED <<canos, pontos, rodando, ticks, impulsou,
                           colidiu, transicoes, fechou, cfg, aposMover>>
       ELSE /\ \E a \in Alturas : Reset(a)
            /\ pc' = "run"

NextConfig ==
    \/ GameInit
    \/ Next

SpecConfig == InitConfig /\ [][NextConfig]_vars

(* ============================== Claims =============================== *)
(* A step that rebuilds the session (Game.reset).                         *)
PassoDeReset == EventoR \/ EsperaR

(* C1: since the last reset the score equals the number of pipes whose    *)
(* passou flag went from False to True: every such transition adds        *)
(* exactly 1, and nothing else changes the score.                         *)
C1_PontosContamTransicoes == pontos = transicoes

(* C1 witness: two pipes have been passed, one after the other.           *)
C1_Witness == pontos = 2 /\ transicoes = 2 /\ passaros # <<>>

(* C2 as claimed: the run state is Over exactly when no bird is active.   *)
C2_OverSseSemPassaros == (rodando = FALSE) <=> (passaros = <<>>)

(* C3 as claimed: every active bird's angle stays within                  *)
(* [ANGULO_MIN_ASA, ROTACAO_MAXIMA].                                      *)
C3_AnguloDentroDosLimites ==
    \A i \in 1 .. Len(passaros) :
        /\ passaros[i].angulo >= ANGULO_MIN_ASA
        /\ passaros[i].angulo <= ROTACAO_MAXIMA

(* The displacement (half pixels) the next mover adds to bird p.          *)
ProximoDeslocamento(p) == Mover(p).y - p.y

(* C4 as claimed: the magnitude of the displacement mover adds never      *)
(* exceeds DESLOCAMENTO_MAX, falling or ascending.                        *)
C4_MagnitudeLimitada ==
    \A i \in 1 .. Len(passaros) :
        /\ ProximoDeslocamento(passaros[i]) <= 2 * DESLOCAMENTO_MAX
        /\ ProximoDeslocamento(passaros[i]) >= -(2 * DESLOCAMENTO_MAX)

(* C4 amended: the displacement mover adds is at most DESLOCAMENTO_MAX    *)
(* downward (16 px) and at most 20 px upward.                             *)
C4_DeslocamentoEntreMenos20e16 ==
    \A i \in 1 .. Len(passaros) :
        /\ ProximoDeslocamento(passaros[i]) <= 2 * DESLOCAMENTO_MAX
        /\ ProximoDeslocamento(passaros[i]) >= -40

(* C4 witness: two ticks after an impulse, a bird whose next tick lifts   *)
(* it by the full 20 px.                                                  *)
C4_Witness ==
    /\ impulsou
    /\ \E i \in 1 .. Len(passaros) :
          /\ ProximoDeslocamento(passaros[i]) = -40
          /\ passaros[i].tempo = 2

(* C5 as claimed: a session in which the bird never got an impulse and    *)
(* never collided has scored 1 by the time its bird is gone.              *)
C5_SemImpulsoPontua ==
    (passaros = <<>> /\ ~impulsou /\ ~colidiu) => pontos = 1

(* C5 amended: while the bird has received no impulse since the reset,    *)
(* no collision is reported, the first pipe is still right of the bird    *)
(* with passou = False, and the score is still 0.                         *)
C5_SemImpulsoNaoPontua ==
    ~impulsou =>
        /\ pontos = 0
        /\ ~colidiu
        /\ Len(canos) = 1
        /\ canos[1].x > PASSARO_X
        /\ ~canos[1].passou

(* C5 witness: the run without impulse is over, the bird having fallen    *)
(* out at the ground with the pipe still far to the right.                *)
C5_Witness ==
    /\ ~impulsou
    /\ passaros = <<>>
    /\ pc = "espera"
    /\ canos[1].x > PASSARO_X + PASSARO_LARGURA

(* C6: without any impulse, after 23 ticks of a fresh session the bird    *)
(* has been removed and the session is Over.                              *)
C6_SemImpulsoAcaba ==
    (~impulsou /\ ticks >= 23) => (passaros = <<>> /\ rodando = FALSE)

(* C6 witness: the 23rd tick of a run without impulse has just removed    *)
(* the bird.                                                              *)
C6_Witness ==
    /\ ~impulsou
    /\ ticks = 23
    /\ pc = "desenhar"
    /\ passaros = <<>>
    /\ rodando = FALSE

(* C7: R in the game-over wait loop puts the session back in its          *)
(* construction-time state.                                               *)
C7_ResetRestauraTudo ==
    [][EsperaR =>
        /\ pontos' = 0
        /\ rodando' = TRUE
        /\ Len(passaros') = 1
        /\ passaros'[1].x = 230
        /\ passaros'[1].y = 2 * 350
        /\ passaros'[1].velocidade = 0
        /\ passaros'[1].tempo = 0
        /\ passaros'[1].angulo = 0
        /\ passaros'[1].altura_inicio_pulo = 2 * 350
        /\ passaros'[1].contagem_imagem = 0
        /\ passaros'[1].imagem = 0
        /\ Len(canos') = 1
        /\ canos'[1].x = 700
        /\ canos'[1].passou = FALSE
        /\ chao' = [y |-> 730, x1 |-> 0, x2 |-> CHAO_LARGURA]]_vars

(* C7 witness: an ended session was reset from the wait loop, which has   *)
(* not yet handed back to the game loop.                                  *)
C7_Witness ==
    /\ pc = "espera_fim"
    /\ pontos = 0
    /\ Len(passaros) = 1
    /\ Len(canos) = 1

(* C8 as claimed: once rodando is False, no step other than a reset       *)
(* changes the score, the birds or the pipes, and only a reset makes      *)
(* rodando True again.                                                    *)
C8_OverCongelado ==
    [][(rodando = FALSE /\ ~PassoDeReset) =>
          /\ UNCHANGED <<pontos, passaros, canos>>
          /\ rodando' = FALSE]_vars

(* C9 as claimed: drawing a frame changes nothing of the session.         *)
C9_DesenharSoLe ==
    [][DesenharTela =>
          UNCHANGED <<passaros, canos, chao, pontos, rodando>>]_vars

(* The part of a bird that Passaro.desenhar must leave alone.             *)
Fisica(p) ==
    <<p.x, p.y, p.angulo, p.velocidade, p.tempo, p.altura_inicio_pulo>>

(* C9 amended: drawing a frame leaves the pipes, the ground, the score,   *)
(* the run state and each bird's position, velocity, tick count,          *)
(* reference height and angle unchanged; it changes only the birds'       *)
(* animation counter and frame.                                           *)
C9_DesenharSoAnima ==
    [][DesenharTela =>
          /\ UNCHANGED <<canos, chao, pontos, rodando>>
          /\ Len(passaros') = Len(passaros)
          /\ \A i \in 1 .. Len(passaros) :
                Fisica(passaros'[i]) = Fisica(passaros[i])]_vars

(* C9 witness: a frame was drawn and moved a bird to its third image.     *)
C9_Witness ==
    /\ pc = "eventos"
    /\ \E i \in 1 .. Len(passaros) :
          passaros[i].imagem = 2 /\ passaros[i].contagem_imagem >= 10

(* C10: an impulse sets tempo to 0, velocidade to IMPULSO_PULO and        *)
(* altura_inicio_pulo to the current y, and leaves x, y and angulo        *)
(* alone; no other step sets the tempo of a bird that stays in the        *)
(* session back to 0.                                                     *)
C10_Pular ==
    [][/\ EventoEspaco =>
            /\ Len(passaros') = Len(passaros)
            /\ \A i \in 1 .. Len(passaros) :
                  /\ passaros'[i].tempo = 0
                  /\ passaros'[i].velocidade = IMPULSO_PULO_X2
                  /\ passaros'[i].altura_inicio_pulo = passaros[i].y
                  /\ passaros'[i].y = passaros[i].y
                  /\ passaros'[i].x = passaros[i].x
                  /\ passaros'[i].angulo = passaros[i].angulo
       /\ (\E i \in 1 .. Len(passaros) :
              /\ i <= Len(passaros')
              /\ passaros[i].tempo # 0
              /\ passaros'[i].tempo = 0)
            => (EventoEspaco \/ PassoDeReset)]_vars

(* C10 witness: a bird in mid-fall has just been given an impulse.        *)
C10_Witness ==
    /\ pc = "eventos"
    /\ impulsou
    /\ \E i \in 1 .. Len(passaros) :
          /\ passaros[i].tempo = 0
          /\ passaros[i].velocidade = IMPULSO_PULO_X2
          /\ passaros[i].altura_inicio_pulo = passaros[i].y
          /\ passaros[i].y > 2 * PASSARO_Y
          /\ passaros[i].angulo < 0

(* C11 as claimed: the heights definir_altura can produce are exactly     *)
(* the integers of the inclusive range CANO_ALTURA_MIN..CANO_ALTURA_MAX:  *)
(* every pipe's height lies in it and every value of it can be drawn.     *)
C11_AlturasIntervaloFechado ==
    /\ \A i \in 1 .. Len(canos) :
          canos[i].altura \in CANO_ALTURA_MIN .. CANO_ALTURA_MAX
    /\ \A a \in (CANO_ALTURA_MIN - 1) .. (CANO_ALTURA_MAX + 1) :
          (ENABLED CanoNovo(a)) <=>
              a \in CANO_ALTURA_MIN .. CANO_ALTURA_MAX

(* What the code does instead: the heights definir_altura can produce    *)
(* are exactly the integers CANO_ALTURA_MIN..CANO_ALTURA_MAX - 1; the     *)
(* upper end CANO_ALTURA_MAX is never drawn.                              *)
C11_AlturasIntervaloSemiaberto ==
    /\ \A i \in 1 .. Len(canos) :
          canos[i].altura \in CANO_ALTURA_MIN .. (CANO_ALTURA_MAX - 1)
    /\ \A a \in (CANO_ALTURA_MIN - 1) .. (CANO_ALTURA_MAX + 1) :
          (ENABLED CanoNovo(a)) <=>
              a \in CANO_ALTURA_MIN .. (CANO_ALTURA_MAX - 1)

(* A pipe just constructed with the greatest height that can be drawn,    *)
(* one below CANO_ALTURA_MAX.                                             *)
C11_Witness ==
    /\ Len(canos) = 1
    /\ canos[1].x = PosicaoNovoCano
    /\ canos[1].altura = CANO_ALTURA_MAX - 1

(* The gap of pipe c: the bottom edge of the top pipe is the gap centre   *)
(* altura, strictly above the top edge of the bottom pipe and             *)
(* DISTANCIA_CANO from it.                                                *)
Abertura(c) ==
    LET borda_topo == c.pos_topo + CANO_ALTURA
    IN  /\ borda_topo = c.altura
        /\ borda_topo < c.pos_base
        /\ c.pos_base - borda_topo = DISTANCIA_CANO

(* Pipe d is pipe c after one Cano.mover, its gap untouched.              *)
MesmoCanoMovido(c, d) ==
    /\ d.x = c.x - VELOCIDADE_CANO
    /\ d.altura = c.altura
    /\ d.pos_topo = c.pos_topo
    /\ d.pos_base = c.pos_base

(* The pipes a tick removed from the front of the list.                   *)
Removidos ==
    Len(canos) + (IF transicoes' > transicoes THEN 1 ELSE 0) - Len(canos')

(* C12: in every state every pipe's top barrier ends strictly above its   *)
(* bottom barrier, exactly DISTANCIA_CANO apart; a tick keeps the gap     *)
(* centre and both edges of every pipe it keeps, and no other step but a  *)
(* reset touches the pipes.                                               *)
C12_AberturaFixa ==
    [][/\ \A i \in 1 .. Len(canos) : Abertura(canos[i])
       /\ \A i \in 1 .. Len(canos') : Abertura(canos'[i])
       /\ \/ /\ pc # "atualizar"
             /\ canos' = canos
          \/ /\ pc = "atualizar"
             /\ Removidos \in 0 .. Len(canos)
             /\ \A i \in (Removidos + 1) .. Len(canos) :
                   MesmoCanoMovido(canos[i], canos'[i - Removidos])
          \/ PassoDeReset]_vars

(* A pipe created during play has been moved by later ticks, behind a     *)
(* pipe that was moved past the bird.                                     *)
C12_Witness ==
    /\ Len(canos) = 2
    /\ canos[1].passou
    /\ canos[2].x < PosicaoNovoCano - 10 * VELOCIDADE_CANO
    /\ canos[2].altura # canos[1].altura

(* Bird p between the ceiling and the ground band: upper edge at y >= 0   *)
(* and lower edge (y + image height) not below CHAO_Y, in half pixels.    *)
NaTela(p) ==
    /\ p.y >= 0
    /\ p.y + 2 * PASSARO_ALTURA <= 2 * CHAO_Y

(* C13: in every state every active bird is between the ceiling and the   *)
(* ground band, and after a tick the active birds are among the birds     *)
(* its physics update left inside these bounds: one that it left outside  *)
(* is removed in that same tick.                                          *)
C13_DentroDosLimites ==
    /\ \A i \in 1 .. Len(passaros) : NaTela(passaros[i])
    /\ pc = "desenhar" =>
          /\ Len(passaros) <=
                 Cardinality({i \in 1 .. Len(aposMover) :
                                 NaTela(aposMover[i])})
          /\ \A i \in 1 .. Len(passaros) :
                 \E j \in 1 .. Len(aposMover) :
                     /\ aposMover[j] = passaros[i]
                     /\ NaTela(aposMover[j])

(* The tick moved the bird above the ceiling, clear of every pipe, and    *)
(* removed it.                                                            *)
C13_Witness ==
    /\ pc = "desenhar"
    /\ Len(aposMover) = 1
    /\ aposMover[1].y < 0
    /\ ~colidiu
    /\ passaros = <<>>

(* The tick moved the bird below the ground band after an impulse, clear  *)
(* of every pipe, and removed it.                                         *)
C13_WitnessChao ==
    /\ pc = "desenhar"
    /\ Len(aposMover) = 1
    /\ aposMover[1].y + 2 * PASSARO_ALTURA > 2 * CHAO_Y
    /\ impulsou
    /\ ~colidiu
    /\ passaros = <<>>

(* The trailing edge of a pipe at x is still on or right of x = 0.        *)
BordaNaTela(x) == x + CANO_LARGURA >= 0

(* C14: every active pipe has x + width >= 0; a tick removes exactly the  *)
(* pipes whose x + width is below 0 after their advance and keeps every   *)
(* other pipe, and no step but a tick or a reset removes a pipe.          *)
C14_RemovidoSoForaDaTela ==
    [][/\ \A i \in 1 .. Len(canos) : BordaNaTela(canos[i].x)
       /\ \A i \in 1 .. Len(canos') : BordaNaTela(canos'[i].x)
       /\ \/ /\ pc # "atualizar"
             /\ canos' = canos
          \/ /\ pc = "atualizar"
             /\ Removidos \in 0 .. Len(canos)
             /\ \A i \in 1 .. Removidos :
                   ~BordaNaTela(canos[i].x - VELOCIDADE_CANO)
             /\ \A i \in (Removidos + 1) .. Len(canos) :
                   /\ BordaNaTela(canos[i].x - VELOCIDADE_CANO)
                   /\ canos'[i - Removidos].x =
                          canos[i].x - VELOCIDADE_CANO
          \/ PassoDeReset]_vars

(* A tick has reaped the first pipe: one pipe was passed and one created  *)
(* since the reset, and the one created, not yet passed, is the only one  *)
(* left in front of a bird still alive.                                   *)
C14_Witness ==
    /\ pc = "desenhar"
    /\ transicoes = 1
    /\ Len(canos) = 1
    /\ ~canos[1].passou
    /\ canos[1].x > PASSARO_X
    /\ passaros # <<>>

(* The pipes of the list a tick reaps: those left of the screen after     *)
(* their advance.                                                         *)
Ceifados ==
    Cardinality({i \in 1 .. Len(canos) :
                    ~BordaNaTela(canos[i].x - VELOCIDADE_CANO)})

(* The pipes a tick added to the list.                                    *)
Criados == Len(canos') - (Len(canos) - Ceifados)

(* Some pipe's passou went from False to True in the tick.                *)
HouveTransicao ==
    \E i \in (Ceifados + 1) .. Len(canos) :
        /\ ~canos[i].passou
        /\ i - Ceifados <= Len(canos')
        /\ canos'[i - Ceifados].passou

(* C15: a reset leaves exactly one pipe; a tick appends a pipe exactly    *)
(* when a pipe's passou goes from False to True in it, at most one, last  *)
(* in the list, at x = TELA_LARGURA + 100 (not advanced in that tick)     *)
(* and not passed; no other step creates a pipe.                          *)
C15_CriacaoDeCanos ==
    [][\/ /\ pc # "atualizar"
          /\ canos' = canos
       \/ /\ pc = "atualizar"
          /\ Criados \in {0, 1}
          /\ (Criados = 1) <=> HouveTransicao
          /\ Criados = 1 =>
                /\ canos'[Len(canos')].x = TELA_LARGURA + 100
                /\ ~canos'[Len(canos')].passou
                /\ \A i \in 1 .. (Len(canos') - 1) :
                      canos'[i].x < TELA_LARGURA + 100
       \/ /\ PassoDeReset
          /\ Len(canos') = 1
          /\ ~canos'[1].passou]_vars

(* The tick in which the first pipe was passed has appended the second    *)
(* one, still at the position it was created at.                          *)
C15_Witness ==
    /\ pc = "desenhar"
    /\ Len(canos) = 2
    /\ canos[1].passou
    /\ canos[1].x = PASSARO_X - VELOCIDADE_CANO - VELOCIDADE_CANO
    /\ canos[2].x = PosicaoNovoCano
    /\ pontos = 1

(* C16: for a bird at any tick count since its impulse, or never          *)
(* impulsed, the displacement the next mover applies is at most           *)
(* DESLOCAMENTO_MAX, and from tick count 4 on the displacement of the     *)
(* tick after it is not smaller.                                          *)
C16_DeslocamentoCrescente ==
    \A i \in 1 .. Len(passaros) :
        LET p == passaros[i]
            d == ProximoDeslocamento(p)
        IN  /\ d <= 2 * DESLOCAMENTO_MAX
            /\ p.tempo + 1 >= 4 => ProximoDeslocamento(Mover(p)) >= d

(* Seven ticks after an impulse: the next displacement is downward and    *)
(* below the clamp, the one after it is larger and is the clamp.          *)
C16_Witness ==
    \E i \in 1 .. Len(passaros) :
        LET p == passaros[i]
        IN  /\ p.velocidade = IMPULSO_PULO_X2
            /\ p.tempo >= 4
            /\ ProximoDeslocamento(p) > 0
            /\ ProximoDeslocamento(p) < ProximoDeslocamento(Mover(p))
            /\ ProximoDeslocamento(Mover(p)) = 2 * DESLOCAMENTO_MAX

(* The configured pipe height range is empty or reversed.                 *)
ConfigInvalida == cfg.CANO_ALTURA_MIN >= cfg.CANO_ALTURA_MAX

(* C17: under a configuration whose minimum pipe height is greater than   *)
(* or equal to the maximum, the program never leaves construction: it is  *)
(* before Game() or has failed in it, no session is running, no pipe      *)
(* exists and no tick was executed.                                       *)
C17_ConfigInvalidaFalhaNaConstrucao ==
    ConfigInvalida =>
        /\ pc \in {"main", "erro"}
        /\ ~rodando
        /\ canos = <<>>
        /\ ticks = 0

(* Construction has failed under the reversed height range.               *)
C17_Witness ==
    /\ pc = "erro"
    /\ cfg.CANO_ALTURA_MIN > cfg.CANO_ALTURA_MAX

(* C18 as claimed: a QUIT event makes run() return without any further    *)
(* input: once one was handled (and no reset followed it) the program     *)
(* is never in the wait loop, which only an input event can leave.        *)
C18_QuitTermina == fechou => pc # "espera"

(* What holds instead: QUIT in the wait loop ends run() at once, and      *)
(* QUIT in the Running loop only clears rodando, so that the frame is     *)
(* completed and the Game Over screen follows.                            *)
C18_QuitNaEsperaTermina ==
    [][/\ EsperaQuit => pc' = "fim"
       /\ EventoQuit => (pc' = "eventos" /\ ~rodando')]_vars

(* Pipe i of the list had its passou set from False to True by the tick.  *)
PassouNoTick(i) ==
    /\ ~canos[i].passou
    /\ i > Ceifados
    /\ i - Ceifados <= Len(canos')
    /\ canos'[i - Ceifados].passou

(* C19 as claimed: a bird removed for colliding with a pipe takes part in *)
(* no further check of the tick: when every bird the tick moved has       *)
(* collided with pipe i or with a pipe before it, the tick does not set   *)
(* the passou flag of pipe i, scores nothing and spawns no pipe for it.   *)
C19_ColididoNaoPassa ==
    [][pc = "atualizar" =>
          \A i \in 1 .. Len(canos) :
              (/\ aposMover' # <<>>
               /\ \A b \in 1 .. Len(aposMover') :
                     \E k \in 1 .. i : Colidir(canos[k], aposMover'[b]))
              => ~PassouNoTick(i)]_vars

(* At least one pipe, the last pipe of the list the only one with passou  *)
(* False, and x strictly increasing along the list.                       *)
UltimoNaoPassado ==
    /\ Len(canos) >= 1
    /\ ~canos[Len(canos)].passou
    /\ \A i \in 1 .. (Len(canos) - 1) :
          /\ canos[i].passou
          /\ canos[i].x < canos[i + 1].x

(* C20: in every state of a session exactly one pipe has passou False     *)
(* and it is the last of the list, every other pipe has passou True, the  *)
(* x positions strictly increase in list order, and no tick sets the      *)
(* passou flag of two pipes.                                              *)
C20_SoUltimoNaoPassado ==
    [][/\ UltimoNaoPassado
       /\ UltimoNaoPassado'
       /\ pc = "atualizar" =>
             Cardinality({i \in 1 .. Len(canos) : PassouNoTick(i)}) <= 1]_vars

(* Two pipes on the screen: the first passed and behind the bird, the     *)
(* second not passed and already moved towards it.                        *)
C20_Witness ==
    /\ Len(canos) = 2
    /\ canos[1].passou
    /\ canos[1].x + CANO_LARGURA < PASSARO_X
    /\ ~canos[2].passou
    /\ canos[2].x < TELA_LARGURA
    /\ passaros # <<>>

====
